---- MODULE Spec2Model ----
(***************************************************************************)
(* A model of driveclient: DriveClient.execute (retry with backoff) and    *)
(* DriveClient.write (upload / replace reconciliation) running against a   *)
(* remote Drive store.  One client, synchronous calls: one call of the     *)
(* client is in progress at a time and every remote request it issues goes *)
(* through execute, one transport attempt per step.                        *)
(***************************************************************************)
EXTENDS Integers, Sequences, FiniteSets, TLC

VARIABLES
    store,      \* the remote objects, most recently modified first
    nextId,     \* the identifier the remote service gives to the next insert
    pc,         \* position of the client: "idle", "exec", a write label, "done"
    op,         \* the call in progress and its arguments
    req,        \* execute: the request being executed
    i,          \* execute: the loop variable of "for i in range(5)"
    sleeps,     \* execute: the time.sleep calls made so far, as bounds
    outcomes,   \* execute: how each transport attempt so far ended: "ok" or
                \* the reason of its HttpError
    ret,        \* execute: what the call returned or raised
    cont,       \* execute: the position of the caller to return to
    w,          \* write: its local variables
    calls,      \* the requests the call in progress handed to execute, each
                \* with what execute returned or raised
    result,     \* what the call in progress returned or raised
    store0,     \* the remote objects when the call in progress began
    first,      \* the outcome of the previous call of write, if any
    disk        \* the local file under the path given to save_as

vars == <<store, nextId, pc, op, req, i, sleeps, outcomes, ret, cont, w, calls,
          result, store0, first, disk>>

----------------------------------------------------------------------------
(* Bounds of the model *)

\* Number of files the remote store holds initially, besides the two folders.
MaxFiles == 2

----------------------------------------------------------------------------
(* Values *)

None == [none |-> TRUE]

folder_type == "application/vnd.google-apps.folder"
document_type == "application/vnd.google-apps.document"
text_plain == "text/plain"
image_png == "image/png"

\* 'google-apps' in mimeType, for the mime-types of the model.
HasGoogleApps(mimeType) == mimeType \in {folder_type, document_type}

\* The upload types the remote service converts to a native document when
\* asked to; an image is stored as it is whatever the convert flag says.
Convertible == {text_plain}

RootId == 1
FolderId == RootId + 1

RootFolder ==
    [id |-> RootId, title |-> "My Drive", mimeType |-> folder_type,
     parents |-> {}, content |-> "", trashed |-> FALSE]

NamedFolder ==
    [id |-> FolderId, title |-> "F", mimeType |-> folder_type,
     parents |-> {RootId}, content |-> "", trashed |-> FALSE]

----------------------------------------------------------------------------
(* Sequences *)

Range(s) == {s[k] : k \in DOMAIN s}

Take(s, n) == IF Len(s) <= n THEN s ELSE SubSeq(s, 1, n)

----------------------------------------------------------------------------
(* The reason of an HttpError and its classification by execute *)

Upper == <<"A", "B", "C", "D", "E", "F", "G", "H", "I", "J", "K", "L", "M",
           "N", "O", "P", "Q", "R", "S", "T", "U", "V", "W", "X", "Y", "Z">>
LowerOf == <<"a", "b", "c", "d", "e", "f", "g", "h", "i", "j", "k", "l", "m",
             "n", "o", "p", "q", "r", "s", "t", "u", "v", "w", "x", "y", "z">>

\* str.lower(), one character
LowerChar(c) ==
    IF \E k \in DOMAIN Upper : Upper[k] = c
    THEN LowerOf[CHOOSE k \in DOMAIN Upper : Upper[k] = c]
    ELSE c

\* reason.lower().replace(' ', '')
Normalize(text) ==
    LET lowered == [k \in DOMAIN text |-> LowerChar(text[k])]
    IN  SelectSeq(lowered, LAMBDA c : c # " ")

\* pattern in text
Contains(text, pattern) ==
    \E k \in 0..(Len(text) - Len(pattern)) :
        \A j \in DOMAIN pattern : text[k + j] = pattern[j]

\* The reasons the transport reports, as error._get_reason() gives them.
ReasonText ==
    [rate |-> <<"R", "a", "t", "e", " ", "L", "i", "m", "i", "t", " ", "E",
                "x", "c", "e", "e", "d", "e", "d">>,
     userrate |-> <<"U", "s", "e", "r", " ", "R", "a", "t", "e", " ", "L",
                    "i", "m", "i", "t", " ", "E", "x", "c", "e", "e", "d",
                    "e", "d">>,
     notfound |-> <<"F", "i", "l", "e", " ", "n", "o", "t", " ", "f", "o",
                    "u", "n", "d", ":", " ", "7">>,
     invalid |-> <<"I", "n", "v", "a", "l", "i", "d", " ", "C", "h", "a",
                   "n", "g", "e">>,
     backend |-> <<"B", "a", "c", "k", "e", "n", "d", " ", "E", "r", "r",
                   "o", "r">>,
     perm |-> <<"I", "n", "s", "u", "f", "f", "i", "c", "i", "e", "n", "t",
                " ", "p", "e", "r", "m", "i", "s", "s", "i", "o", "n", "s",
                " ", "f", "o", "r", " ", "t", "h", "i", "s", " ", "f", "i",
                "l", "e">>]

Reasons == DOMAIN ReasonText

ratelimitexceeded ==
    <<"r", "a", "t", "e", "l", "i", "m", "i", "t", "e", "x", "c", "e", "e",
      "d", "e", "d">>
notfound == <<"n", "o", "t", "f", "o", "u", "n", "d">>
invalidchange ==
    <<"i", "n", "v", "a", "l", "i", "d", "c", "h", "a", "n", "g", "e">>

\* A mutant of ClassifyText: a not-found reason is retried like a rate limit.
ClassifyTextRetryNotFound(text) ==
    LET reason == Normalize(text)
    IN  IF Contains(reason, ratelimitexceeded) \/ Contains(reason, notfound)
        THEN "ratelimit"
        ELSE IF Contains(reason, invalidchange) THEN "invalidchange"
        ELSE "other"

\* A mutant of ClassifyText: every failure that is not a rate limit is absorbed.
ClassifyTextAbsorbAll(text) ==
    LET reason == Normalize(text)
    IN  IF Contains(reason, ratelimitexceeded) THEN "ratelimit"
        ELSE IF Contains(reason, invalidchange) THEN "invalidchange"
        ELSE "notfound"

\* A mutant of ClassifyText: the not-found branch is missing, so that such a
\* failure is raised.
ClassifyTextNotFoundFatal(text) ==
    LET reason == Normalize(text)
    IN  IF Contains(reason, ratelimitexceeded) THEN "ratelimit"
        ELSE IF Contains(reason, invalidchange) THEN "invalidchange"
        ELSE "other"

\* The branch of the except clause of execute that a reason takes.
ClassifyText(text) ==
    LET reason == Normalize(text)
    IN  IF Contains(reason, ratelimitexceeded) THEN "ratelimit"
        ELSE IF Contains(reason, notfound) THEN "notfound"
        ELSE IF Contains(reason, invalidchange) THEN "invalidchange"
        ELSE "other"

Classify == [r \in Reasons |-> ClassifyText(ReasonText[r])]

\* A mutant of RetryRange: one attempt more.
RetryRangeSix == 0..5

\* range(5)
RetryRange == 0..4

\* The bounds of random.random(): a value of [0, 1).
RandomLow == 0
RandomHigh == 1

\* A mutant of Backoff: linear, 2*i in place of 2**i.
BackoffLinear(n) == [lo |-> 2 * n + RandomLow, hi |-> 2 * n + RandomHigh]

\* time.sleep(2**i + random.random()): the duration lies in [lo, hi).
Backoff(n) == [lo |-> 2 ^ n + RandomLow, hi |-> 2 ^ n + RandomHigh]

----------------------------------------------------------------------------
(* The remote service *)

NoQuery == [parent |-> 0, title |-> "", mimeEq |-> {}, mimeNe |-> {}]
NoBody == [title |-> "", parents |-> {}]
NoMedia == [bytes |-> "", mimetype |-> ""]

Request(m, id, q, maxResults, body, convert, media) ==
    [m |-> m, id |-> id, q |-> q, maxResults |-> maxResults, body |-> body,
     convert |-> convert, media |-> media]

NoRequest == Request("", 0, NoQuery, 0, NoBody, FALSE, NoMedia)

\* A request of the caller's own making, handed to execute directly.
OpaqueRequest == Request("opaque", 0, NoQuery, 0, NoBody, FALSE, NoMedia)

Ids(s) == {s[k].id : k \in DOMAIN s}

Lookup(s, id) == s[CHOOSE k \in DOMAIN s : s[k].id = id]

\* Does object f satisfy the filter expression q?  Every expression the
\* client builds ends in "trashed=false".
Matches(f, q) ==
    /\ q.parent # 0 => q.parent \in f.parents
    /\ q.title # "" => f.title = q.title
    /\ q.mimeEq # {} => f.mimeType \in q.mimeEq
    /\ f.mimeType \notin q.mimeNe
    /\ ~f.trashed

\* The representation the service stores an upload in.
StoredType(media, convert) ==
    IF convert /\ media.mimetype \in Convertible THEN document_type
    ELSE media.mimetype

Inserted(r, id) ==
    [id |-> id, title |-> r.body.title,
     mimeType |-> StoredType(r.media, r.convert),
     parents |-> r.body.parents, content |-> r.media.bytes,
     trashed |-> FALSE]

Updated(f, r) ==
    [f EXCEPT !.title = r.body.title, !.parents = r.body.parents,
              !.content = r.media.bytes,
              !.mimeType = IF HasGoogleApps(f.mimeType) THEN f.mimeType
                           ELSE r.media.mimetype]

\* The request names an object the service does not hold.
Missing(r, s) == r.m \in {"get", "delete", "update"} /\ r.id \notin Ids(s)

\* The store after the service performed r.
Effect(r, s, fresh) ==
    CASE r.m = "insert" -> <<Inserted(r, fresh)>> \o s
      [] r.m = "update" ->
            <<Updated(Lookup(s, r.id), r)>>
                \o SelectSeq(s, LAMBDA f : f.id # r.id)
      [] r.m = "delete" -> SelectSeq(s, LAMBDA f : f.id # r.id)
      [] OTHER -> s

\* The parsed response of the service to r.
Response(r, s, fresh) ==
    CASE r.m = "about" -> [rootFolderId |-> RootId]
      [] r.m = "get" -> Lookup(s, r.id)
      [] r.m = "list" ->
            [items |-> Take(SelectSeq(s, LAMBDA f : Matches(f, r.q)),
                            r.maxResults)]
      [] r.m = "insert" -> Inserted(r, fresh)
      [] r.m = "update" -> Updated(Lookup(s, r.id), r)
      [] r.m = "delete" -> None
      [] OTHER -> [opaque |-> TRUE]

\* The reasons request.execute() can fail with: the service is out of quota
\* or broken at any time, an absent object is not found, and a request of
\* the caller's own may meet any of them.
Errors(r, s) ==
    {"rate", "backend", "perm"}
        \cup (IF Missing(r, s) THEN {"notfound"} ELSE {})
        \cup (IF r.m = "opaque" THEN {"userrate", "notfound", "invalid"} ELSE {})

----------------------------------------------------------------------------
(* DriveClient.execute *)

Pending == [k |-> "pending", v |-> None, exc |-> ""]
Returned(v) == [k |-> "value", v |-> v, exc |-> ""]
ReturnedNone == [k |-> "None", v |-> None, exc |-> ""]
Raised(exc) == [k |-> "raise", v |-> None, exc |-> exc]

\* The entry of execute(r), called from the position that continues at k.
EnterExecute(r, k) ==
    /\ pc' = "exec"
    /\ req' = r
    /\ i' = 0
    /\ sleeps' = <<>>
    /\ outcomes' = <<>>
    /\ ret' = Pending
    /\ cont' = k

\* self.execute(r) in the course of a call
StartExecute(r, k) ==
    EnterExecute(r, k) /\ calls' = Append(calls, [req |-> r, ret |-> Pending])

\* execute hands x back to its caller.
Leave(x) ==
    /\ ret' = x
    /\ pc' = cont
    /\ calls' = [calls EXCEPT ![Len(calls)].ret = x]

\* return request.execute()
ExecuteReturn ==
    /\ pc = "exec"
    /\ i \in RetryRange
    /\ ~Missing(req, store)
    /\ store' = Effect(req, store, nextId)
    /\ nextId' = IF req.m = "insert" THEN nextId + 1 ELSE nextId
    /\ Leave(Returned(Response(req, store, nextId)))
    /\ outcomes' = Append(outcomes, "ok")
    /\ UNCHANGED <<op, req, i, sleeps, cont, w, result, store0, first, disk>>

\* except HttpError, 'ratelimitexceeded' in reason: sleep and continue; the
\* function ends, returning nothing, when the loop is exhausted.
ExecuteRateLimited ==
    /\ pc = "exec"
    /\ i \in RetryRange
    /\ \E reason \in Errors(req, store) :
        /\ Classify[reason] = "ratelimit"
        /\ outcomes' = Append(outcomes, reason)
    /\ sleeps' = Append(sleeps, Backoff(i))
    /\ i' = i + 1
    /\ IF i + 1 \in RetryRange
       THEN UNCHANGED <<pc, ret, calls>>
       ELSE Leave(ReturnedNone)
    /\ UNCHANGED <<store, nextId, op, req, cont, w, result, store0, first, disk>>

\* except HttpError, 'notfound' or 'invalidchange' in reason: return
ExecuteAbsorbed ==
    /\ pc = "exec"
    /\ i \in RetryRange
    /\ \E reason \in Errors(req, store) :
        /\ Classify[reason] \in {"notfound", "invalidchange"}
        /\ outcomes' = Append(outcomes, reason)
    /\ Leave(ReturnedNone)
    /\ UNCHANGED <<store, nextId, op, req, i, sleeps, cont, w, result, store0,
                   first, disk>>

\* except HttpError, any other reason: raise
ExecuteRaise ==
    /\ pc = "exec"
    /\ i \in RetryRange
    /\ \E reason \in Errors(req, store) :
        /\ Classify[reason] = "other"
        /\ outcomes' = Append(outcomes, reason)
        /\ Leave(Raised(reason))
    /\ UNCHANGED <<store, nextId, op, req, i, sleeps, cont, w, result, store0,
                   first, disk>>

Execute == ExecuteReturn \/ ExecuteRateLimited \/ ExecuteAbsorbed \/ ExecuteRaise

----------------------------------------------------------------------------
(* DriveObject and the requests the client builds *)

\* DriveObject.__new__: no object without attributes.
DriveObject(attributes) == IF attributes = None THEN None ELSE attributes

\* The subclass DriveObject.__new__ picks.
Kind(attributes) ==
    IF attributes.mimeType = folder_type THEN "DriveFolder" ELSE "DriveFile"

\* A mutant of FolderQuery: the title is not part of the filter.
FolderQueryAnyTitle(name) ==
    [parent |-> 0, title |-> "", mimeEq |-> {folder_type}, mimeNe |-> {}]

\* DriveClient.folder(name): the query for a folder by title.
FolderQuery(name) ==
    [parent |-> 0, title |-> name, mimeEq |-> {folder_type}, mimeNe |-> {}]

\* DriveFolder.file(name): the query for a child file by title.
ChildFileQuery(parent, name) ==
    [parent |-> parent, title |-> name, mimeEq |-> {}, mimeNe |-> {folder_type}]

ListRequest(q, maxResults) ==
    Request("list", 0, q, maxResults, NoBody, FALSE, NoMedia)
GetRequest(id) == Request("get", id, NoQuery, 0, NoBody, FALSE, NoMedia)
AboutRequest == Request("about", 0, NoQuery, 0, NoBody, FALSE, NoMedia)
DeleteRequest(id) == Request("delete", id, NoQuery, 0, NoBody, FALSE, NoMedia)

\* files().update(fileId=id, **params) and files().insert(**params)
UpdateRequest(id, name, parents, args) ==
    Request("update", id, NoQuery, 0, [title |-> name, parents |-> parents],
            args.convert, [bytes |-> args.bytestring, mimetype |-> args.mimetype])
InsertRequest(name, parents, args) ==
    Request("insert", 0, NoQuery, 0, [title |-> name, parents |-> parents],
            args.convert, [bytes |-> args.bytestring, mimetype |-> args.mimetype])

\* query with maxResults = 1: files[0] if files else None
FirstOrNone(items) == IF items = <<>> THEN None ELSE DriveObject(Head(items))

----------------------------------------------------------------------------
(* DriveClient.write *)

\* A mutant of NeedsTypeConversion: the test of the convert flag is inverted.
NeedsTypeConversionInverted(mimeType, convert) ==
    \/ convert /\ HasGoogleApps(mimeType)
    \/ ~convert /\ ~HasGoogleApps(mimeType)

\* The stored representation disagrees with the convert flag.
NeedsTypeConversion(mimeType, convert) ==
    \/ ~convert /\ HasGoogleApps(mimeType)
    \/ convert /\ ~HasGoogleApps(mimeType)

\* A mutant of Plan: the replace flag is not consulted.
PlanIgnoringReplace(existing, replace, convert) ==
    IF existing # None
    THEN IF NeedsTypeConversion(existing.mimeType, convert) THEN "delete"
         ELSE "update"
    ELSE "insert"

\* A mutant of Plan: a type conversion inserts the new object without
\* deleting the old one first.
PlanWithoutDelete(existing, replace, convert) ==
    IF existing # None /\ ~replace THEN "skip"
    ELSE IF existing # None /\ ~NeedsTypeConversion(existing.mimeType, convert)
    THEN "update"
    ELSE "insert"

\* What write does once it has looked the target up.
Plan(existing, replace, convert) ==
    IF existing # None /\ ~replace THEN "skip"
    ELSE IF existing # None
    THEN IF NeedsTypeConversion(existing.mimeType, convert) THEN "delete"
         ELSE "update"
    ELSE "insert"

\* A mutant of AfterDelete: the except clause does not return, so the insert
\* follows a refused delete too.
AfterDeleteFallThrough(x) == "insert"

\* try: self.execute(delete) except HttpError: return
AfterDelete(x) == IF x.k = "raise" THEN "return" ELSE "insert"

NoFolder == [kind |-> "none", name |-> "", id |-> 0]
FolderNamed(name) == [kind |-> "str", name |-> name, id |-> 0]
FolderObject(id) == [kind |-> "obj", name |-> "", id |-> id]

NoLocals == [existing |-> None, name |-> "", parents |-> {}, folder |-> 0]

NoCall ==
    [name |-> "", id |-> 0, fname |-> "", folder |-> NoFolder,
     bytestring |-> "", mimetype |-> "", replace |-> FALSE, convert |-> FALSE]

\* The call hands request r to execute and goes on at position k.
Issue(r, k) == StartExecute(r, k) /\ UNCHANGED result

\* The call returns or raises.
Finish(res) ==
    /\ pc' = "done"
    /\ result' = res
    /\ UNCHANGED <<req, i, sleeps, outcomes, ret, cont, calls>>

\* The second half of write: existing_file, name and parents are known.
Reconcile(existing, name, parents) ==
    LET plan == Plan(existing, op.replace, op.convert)
    IN  /\ w' = [w EXCEPT !.existing = existing, !.name = name,
                          !.parents = parents]
        /\ CASE plan = "skip" -> Finish(ReturnedNone)
             [] plan = "delete" -> Issue(DeleteRequest(existing.id), "w_delete")
             [] plan = "update" ->
                    Issue(UpdateRequest(existing.id, name, parents, op), "w_update")
             [] OTHER -> Issue(InsertRequest(name, parents, op), "w_insert")

\* The first request of a call.
IssueFirst(r, k) ==
    /\ EnterExecute(r, k)
    /\ calls' = <<[req |-> r, ret |-> Pending]>>
    /\ result' = Pending

\* The first remote call of write(args), or its return without one.
Begin(args) ==
    IF args.id # 0
    THEN IssueFirst(GetRequest(args.id), "w_get") /\ w' = NoLocals
    ELSE IF args.fname # ""
    THEN CASE args.folder.kind = "str" ->
                /\ IssueFirst(ListRequest(FolderQuery(args.folder.name), 1),
                              "w_folder")
                /\ w' = NoLocals
           [] args.folder.kind = "none" ->
                IssueFirst(AboutRequest, "w_about") /\ w' = NoLocals
           [] OTHER ->
                /\ IssueFirst(ListRequest(ChildFileQuery(args.folder.id,
                                                         args.fname), 1),
                              "w_file")
                /\ w' = [NoLocals EXCEPT !.folder = args.folder.id]
    ELSE /\ pc' = "done"
         /\ result' = ReturnedNone
         /\ calls' = <<>>
         /\ w' = NoLocals
         /\ UNCHANGED <<req, i, sleeps, outcomes, ret, cont>>

\* existing_file = self.file(id=id)
WriteGet ==
    /\ pc = "w_get"
    /\ IF ret.k = "raise" THEN Finish(Raised("HttpError")) /\ UNCHANGED w
       ELSE LET existing == DriveObject(ret.v)
            IN  IF existing = None
                THEN Finish(ReturnedNone) /\ UNCHANGED w
                ELSE Reconcile(existing, existing.title, existing.parents)
    /\ UNCHANGED <<store, nextId, op, store0, first, disk>>

\* folder = self.folder(name=folder)
WriteFolder ==
    /\ pc = "w_folder"
    /\ IF ret.k = "raise" THEN Finish(Raised("HttpError")) /\ UNCHANGED w
       ELSE IF ret.k = "None" THEN Finish(Raised("TypeError")) /\ UNCHANGED w
       ELSE LET folder == FirstOrNone(ret.v.items)
            IN  IF folder = None
                THEN Finish(ReturnedNone) /\ UNCHANGED w
                ELSE /\ w' = [w EXCEPT !.folder = folder.id]
                     /\ Issue(ListRequest(ChildFileQuery(folder.id, op.fname), 1),
                              "w_file")
    /\ UNCHANGED <<store, nextId, op, store0, first, disk>>

\* folder = self.root, first half: about = self.execute(about().get())
WriteAbout ==
    /\ pc = "w_about"
    /\ IF ret.k = "raise" THEN Finish(Raised("HttpError"))
       ELSE IF ret.k = "None" THEN Finish(Raised("AttributeError"))
       ELSE Issue(GetRequest(ret.v.rootFolderId), "w_root")
    /\ UNCHANGED <<store, nextId, op, w, store0, first, disk>>

\* folder = self.root, second half: self.folder(id=about['rootFolderId'])
WriteRoot ==
    /\ pc = "w_root"
    /\ IF ret.k = "raise" THEN Finish(Raised("HttpError")) /\ UNCHANGED w
       ELSE LET folder == DriveObject(ret.v)
            IN  IF folder = None
                THEN Finish(Raised("AttributeError")) /\ UNCHANGED w
                ELSE /\ w' = [w EXCEPT !.folder = folder.id]
                     /\ Issue(ListRequest(ChildFileQuery(folder.id, op.fname), 1),
                              "w_file")
    /\ UNCHANGED <<store, nextId, op, store0, first, disk>>

\* existing_file = folder.file(name); parents = [{'id': folder.id}]
WriteFile ==
    /\ pc = "w_file"
    /\ IF ret.k = "raise" THEN Finish(Raised("HttpError")) /\ UNCHANGED w
       ELSE IF ret.k = "None" THEN Finish(Raised("TypeError")) /\ UNCHANGED w
       ELSE Reconcile(FirstOrNone(ret.v.items), op.fname, {w.folder})
    /\ UNCHANGED <<store, nextId, op, store0, first, disk>>

\* The delete came back: an HttpError ends write, anything else goes on to
\* the insert.
WriteDelete ==
    /\ pc = "w_delete"
    /\ IF AfterDelete(ret) = "return" THEN Finish(ReturnedNone)
       ELSE Issue(InsertRequest(w.name, w.parents, op), "w_insert")
    /\ UNCHANGED <<store, nextId, op, w, store0, first, disk>>

\* return DriveObject(self, self.execute(files().update(...)))
WriteUpdate ==
    /\ pc = "w_update"
    /\ IF ret.k = "raise" THEN Finish(Raised("HttpError"))
       ELSE IF DriveObject(ret.v) = None THEN Finish(ReturnedNone)
       ELSE Finish(Returned(DriveObject(ret.v)))
    /\ UNCHANGED <<store, nextId, op, w, store0, first, disk>>

\* return DriveObject(self, self.execute(files().insert(...)))
WriteInsert ==
    /\ pc = "w_insert"
    /\ IF ret.k = "raise" THEN Finish(Raised("HttpError"))
       ELSE IF DriveObject(ret.v) = None THEN Finish(ReturnedNone)
       ELSE Finish(Returned(DriveObject(ret.v)))
    /\ UNCHANGED <<store, nextId, op, w, store0, first, disk>>

WriteStep ==
    \/ WriteGet \/ WriteFolder \/ WriteAbout \/ WriteRoot \/ WriteFile
    \/ WriteDelete \/ WriteUpdate \/ WriteInsert

----------------------------------------------------------------------------
(* The calls of the client and the initial states *)

Payloads == {"new"}
MimeTypes == {text_plain, image_png}
FileNames == {"a"}

\* The identifiers of the initial objects, present or not.
InitialIds == RootId..(FolderId + MaxFiles)

Targets ==
    {[id |-> id, fname |-> "", folder |-> NoFolder] : id \in InitialIds}
    \cup {[id |-> 0, fname |-> n, folder |-> f] :
            n \in FileNames,
            f \in {NoFolder, FolderNamed("F"), FolderNamed("G"),
                   FolderObject(FolderId)}}
    \cup {[id |-> 0, fname |-> "", folder |-> NoFolder]}

WriteArgs ==
    {[name |-> "write", id |-> t.id, fname |-> t.fname, folder |-> t.folder,
      bytestring |-> b, mimetype |-> m, replace |-> r, convert |-> c] :
        t \in Targets, b \in Payloads, m \in MimeTypes, r \in BOOLEAN,
        c \in BOOLEAN}

\* client.execute(request)
CallExecute ==
    /\ pc = "idle"
    /\ op' = [NoCall EXCEPT !.name = "execute"]
    /\ IssueFirst(OpaqueRequest, "done")
    /\ store0' = store
    /\ UNCHANGED <<store, nextId, w, first, disk>>

\* client.write(...)
CallWrite ==
    /\ pc = "idle"
    /\ \E args \in WriteArgs :
        /\ op' = args
        /\ Begin(args)
    /\ store0' = store
    /\ UNCHANGED <<store, nextId, first, disk>>

\* client.write(...) once more, with the arguments of the call that just ended
WriteAgain ==
    /\ pc = "done"
    /\ op.name = "write"
    /\ first = None
    /\ first' = [store |-> store, result |-> result, store0 |-> store0]
    /\ store0' = store
    /\ Begin(op)
    /\ UNCHANGED <<store, nextId, op, disk>>

\* The files a store may hold initially, without their identifiers.
Shapes ==
    {[title |-> "a", mimeType |-> text_plain, parents |-> {RootId},
      content |-> "old", trashed |-> FALSE],
     [title |-> "a", mimeType |-> document_type, parents |-> {RootId},
      content |-> "old", trashed |-> FALSE],
     [title |-> "a", mimeType |-> image_png, parents |-> {RootId},
      content |-> "new", trashed |-> FALSE],
     [title |-> "a", mimeType |-> text_plain, parents |-> {FolderId},
      content |-> "old", trashed |-> FALSE],
     [title |-> "b", mimeType |-> text_plain, parents |-> {RootId},
      content |-> "old", trashed |-> FALSE],
     [title |-> "a", mimeType |-> text_plain, parents |-> {RootId},
      content |-> "old", trashed |-> TRUE]}

WithId(shape, id) ==
    [id |-> id, title |-> shape.title, mimeType |-> shape.mimeType,
     parents |-> shape.parents, content |-> shape.content,
     trashed |-> shape.trashed]

InitialStores ==
    UNION {{[k \in 1..n |-> WithId(shapes[k], FolderId + k)]
                \o <<NamedFolder, RootFolder>> :
              shapes \in [1..n -> Shapes]} : n \in 0..MaxFiles}

\* No file under the path.
NoLocalFile == [exists |-> FALSE, bytes |-> "", writes |-> <<>>]

\* The client before its first call.
InitClient ==
    /\ store \in InitialStores
    /\ nextId = FolderId + MaxFiles + 1
    /\ pc = "idle"
    /\ op = NoCall
    /\ req = NoRequest
    /\ i = 0
    /\ sleeps = <<>>
    /\ outcomes = <<>>
    /\ ret = Pending
    /\ cont = "idle"
    /\ w = NoLocals
    /\ calls = <<>>
    /\ result = Pending
    /\ store0 = store
    /\ first = None

Init == InitClient /\ disk = NoLocalFile

\* One call of the client against a transport that may fail.
Next == CallExecute \/ CallWrite \/ Execute \/ WriteStep

Spec == Init /\ [][Next]_vars

\* Two calls of write in succession against a transport that does not fail:
\* no rate limit and no error of the service other than an absent object.
NextReliable ==
    CallWrite \/ WriteAgain \/ ExecuteReturn \/ ExecuteAbsorbed \/ WriteStep

SpecReliable == Init /\ [][NextReliable]_vars

----------------------------------------------------------------------------
(* DriveClient.query and DriveFolder.files_of_type *)

ReturnedList(files) == [k |-> "list", v |-> files, exc |-> ""]

\* maxResults=1000, the default of query
DefaultMaxResults == 1000

\* '"{}" in parents and ({})'.format(parent, q) when a parent is given
WithParent(q, parent) == IF parent # 0 THEN [q EXCEPT !.parent = parent] ELSE q

\* A mutant of QueryResult: a bound of 1 yields a list too.
QueryResultAlwaysList(items, maxResults) ==
    IF maxResults >= 1 THEN ReturnedList(items)
    ELSE IF items = <<>> THEN ReturnedNone
    ELSE Returned(DriveObject(Head(items)))

\* The last three lines of query: a list for a bound above 1, otherwise the
\* first file or None.
QueryResult(items, maxResults) ==
    IF maxResults > 1 THEN ReturnedList(items)
    ELSE IF items = <<>> THEN ReturnedNone
    ELSE Returned(DriveObject(Head(items)))

\* The mime_types argument of files_of_type: None, a string or a list.
NoTypes == [kind |-> "none", str |-> "", list |-> <<>>]
TypeString(t) == [kind |-> "str", str |-> t, list |-> <<>>]
TypeList(l) == [kind |-> "list", str |-> "", list |-> l]

\* if mime_types:
Truthy(mime_types) ==
    \/ mime_types.kind = "str" /\ mime_types.str # ""
    \/ mime_types.kind = "list" /\ mime_types.list # <<>>

\* A mutant of FilesOfTypeQuery: without types every child is asked for,
\* the folders too.
FilesOfTypeQueryWithFolders(mime_types) ==
    IF Truthy(mime_types)
    THEN [parent |-> 0, title |-> "",
          mimeEq |-> IF mime_types.kind = "str" THEN {mime_types.str}
                     ELSE Range(mime_types.list),
          mimeNe |-> {}]
    ELSE [parent |-> 0, title |-> "", mimeEq |-> {}, mimeNe |-> {}]

\* The filter expression files_of_type builds.
FilesOfTypeQuery(mime_types) ==
    IF Truthy(mime_types)
    THEN [parent |-> 0, title |-> "",
          mimeEq |-> IF mime_types.kind = "str" THEN {mime_types.str}
                     ELSE Range(mime_types.list),
          mimeNe |-> {}]
    ELSE [parent |-> 0, title |-> "", mimeEq |-> {}, mimeNe |-> {folder_type}]

\* DriveClient.file(name): the query for a file by title.
FileQuery(name) ==
    [parent |-> 0, title |-> name, mimeEq |-> {}, mimeNe |-> {folder_type}]

\* The filter expressions handed to query.
CallerQueries == {FileQuery("a"), FolderQuery("F"), FilesOfTypeQuery(NoTypes)}

ResultBounds == {1, 2, DefaultMaxResults}

MimeTypeArgs ==
    {NoTypes, TypeString(""), TypeList(<<>>), TypeString(text_plain),
     TypeString(folder_type), TypeList(<<text_plain, document_type>>)}

\* client.query(q, parent, maxResults)
CallQuery ==
    /\ pc = "idle"
    /\ \E q \in CallerQueries, parent \in {0} \cup InitialIds, n \in ResultBounds :
        /\ op' = [name |-> "query", q |-> q, parent |-> parent,
                  maxResults |-> n, mime_types |-> NoTypes]
        /\ IssueFirst(ListRequest(WithParent(q, parent), n), "q_list")
    /\ store0' = store
    /\ UNCHANGED <<store, nextId, w, first, disk>>

\* folder.files_of_type(mime_types), folder a DriveFolder
CallFilesOfType ==
    /\ pc = "idle"
    /\ \E folder \in Range(store), mime_types \in MimeTypeArgs :
        /\ Kind(folder) = "DriveFolder"
        /\ op' = [name |-> "files_of_type", q |-> FilesOfTypeQuery(mime_types),
                  parent |-> folder.id, maxResults |-> DefaultMaxResults,
                  mime_types |-> mime_types]
        /\ IssueFirst(ListRequest(WithParent(FilesOfTypeQuery(mime_types),
                                             folder.id),
                                  DefaultMaxResults),
                      "q_list")
    /\ store0' = store
    /\ UNCHANGED <<store, nextId, w, first, disk>>

\* files = [DriveObject(self, f) for f in self.execute(...)['items']] and
\* the return of query
QueryReturn ==
    /\ pc = "q_list"
    /\ IF ret.k = "raise" THEN Finish(Raised("HttpError"))
       ELSE IF ret.k = "None" THEN Finish(Raised("TypeError"))
       ELSE Finish(QueryResult(ret.v.items, op.maxResults))
    /\ UNCHANGED <<store, nextId, op, w, store0, first, disk>>

\* client.get(id), also behind file(id=...) and folder(id=...)
CallGet ==
    /\ pc = "idle"
    /\ \E id \in InitialIds :
        /\ op' = [name |-> "get", id |-> id]
        /\ IssueFirst(GetRequest(id), "g_get")
    /\ store0' = store
    /\ UNCHANGED <<store, nextId, w, first, disk>>

\* if result: return DriveObject(self, result)
GetReturn ==
    /\ pc = "g_get"
    /\ IF ret.k = "raise" THEN Finish(Raised("HttpError"))
       ELSE IF DriveObject(ret.v) = None THEN Finish(ReturnedNone)
       ELSE Finish(Returned(DriveObject(ret.v)))
    /\ UNCHANGED <<store, nextId, op, w, store0, first, disk>>

\* One call of get, of query or of files_of_type against a transport that
\* may fail.
NextQuery ==
    CallGet \/ CallQuery \/ CallFilesOfType \/ Execute \/ GetReturn \/ QueryReturn

SpecQuery == Init /\ [][NextQuery]_vars

----------------------------------------------------------------------------
(* DriveFile.save_as *)

\* hashlib.md5 of bytes, as hashfile digests them: equal digests for equal
\* bytes only.
Md5(bytes) == <<"md5", bytes>>

\* self.md5Checksum: the service gives one to the files it stores as they
\* are, and none to its own document types; __getattr__ then yields ''.
NoChecksum == <<>>
Md5Checksum(file) ==
    IF HasGoogleApps(file.mimeType) THEN NoChecksum ELSE Md5(file.content)

\* The opendocument rendering the export link of a document serves.
Export(content) == "odt:" \o content

\* self.data, when the download succeeds: the export of a document, the
\* bytes of a file stored as it is.
Data(file) ==
    IF HasGoogleApps(file.mimeType) THEN Export(file.content)
    ELSE file.content

\* A mutant of SkipSave: the checksums are not compared.
SkipSaveIgnoringChecksum(file, replace, local) ==
    local.exists /\ ~replace

\* The two early returns of save_as.
SkipSave(file, replace, local) ==
    /\ local.exists
    /\ \/ ~replace
       \/ Md5Checksum(file) # NoChecksum
            /\ Md5Checksum(file) = Md5(local.bytes)

LocalBytes == {"", "old", "new", Export("old")}

\* What the path may hold before save_as.
LocalFiles ==
    {NoLocalFile}
        \cup {[exists |-> TRUE, bytes |-> b, writes |-> <<>>] : b \in LocalBytes}

\* The outcomes of http.request(url, 'GET').
Downloads == {"ok", "fail"}

\* file.save_as(filename, replace) up to open(path, 'wb'), which creates the
\* file or truncates it.
CallSaveAs ==
    /\ pc = "idle"
    /\ \E file \in Range(store), replace \in BOOLEAN :
        /\ Kind(file) = "DriveFile"
        /\ op' = [name |-> "save_as", file |-> file, replace |-> replace,
                  before |-> disk]
        /\ IF SkipSave(file, replace, disk)
           THEN /\ pc' = "done"
                /\ result' = ReturnedNone
                /\ UNCHANGED disk
           ELSE /\ pc' = "s_data"
                /\ result' = Pending
                /\ disk' = [disk EXCEPT !.exists = TRUE, !.bytes = ""]
    /\ store0' = store
    /\ UNCHANGED <<store, nextId, req, i, sleeps, outcomes, ret, cont, w,
                   calls, first>>

\* file.write(self.data): the download, then the write of what it brought;
\* a download that raises leaves the with block before anything is written.
SaveData ==
    /\ pc = "s_data"
    /\ \E download \in Downloads :
        IF download = "ok"
        THEN /\ disk' = [disk EXCEPT !.bytes = Data(op.file),
                                     !.writes = Append(@, Data(op.file))]
             /\ result' = ReturnedNone
        ELSE /\ result' = Raised("HttpLib2Error")
             /\ UNCHANGED disk
    /\ pc' = "done"
    /\ UNCHANGED <<store, nextId, op, req, i, sleeps, outcomes, ret, cont, w,
                   calls, store0, first>>

InitSave == InitClient /\ disk \in LocalFiles

\* One call of save_as on a file of the store.
NextSave == CallSaveAs \/ SaveData

SpecSave == InitSave /\ [][NextSave]_vars

----------------------------------------------------------------------------
(* DriveClient.execute: retry, backoff and the classification of failures *)

RateLimitReasons == {"rate", "userrate"}
AbsorbedReasons == {"notfound", "invalid"}
FatalReasons == {"backend", "perm"}

\* The execute call in hand has handed something back to its caller.
ExecuteEnded == outcomes # <<>> /\ ret.k # "pending"

AllRateLimited ==
    outcomes # <<>> /\ \A k \in DOMAIN outcomes : outcomes[k] \in RateLimitReasons

\* C1: an execute whose every attempt fails with a rate-limit error fails
\* fatally after its 5th attempt: it raises, it does not return None.
C1_ExhaustionRaises ==
    (ExecuteEnded /\ AllRateLimited) => (Len(outcomes) = 5 /\ ret.k = "raise")

\* C2: when the first k attempts (k in 0..4) are rate-limited and attempt k+1
\* succeeds, execute returns the response of that attempt, has slept exactly
\* k times, and the sleep after the attempt of index n lies between 2^n and
\* 2^n + 1, so that the bounds do not decrease from one retry to the next.
C2_RetryThenSuccess ==
    (ExecuteEnded /\ outcomes[Len(outcomes)] = "ok") =>
        LET k == Len(outcomes) - 1
        IN  /\ k \in 0..4
            /\ \A n \in 1..k : outcomes[n] \in RateLimitReasons
            /\ ret.k = "value"
            /\ req.m = "opaque" => ret.v = [opaque |-> TRUE]
            /\ req.m = "get" => ret.v = Lookup(store, req.id)
            /\ req.m = "insert" => ret.v = Head(store)
            /\ Len(sleeps) = k
            /\ \A n \in 0..(k - 1) :
                sleeps[n + 1].lo = 2 ^ n /\ sleeps[n + 1].hi = 2 ^ n + 1
            /\ \A n \in 1..(k - 1) :
                sleeps[n].lo <= sleeps[n + 1].lo /\ sleeps[n].hi <= sleeps[n + 1].hi

C2_Witness ==
    /\ op.name = "execute"
    /\ pc = "done"
    /\ Len(outcomes) = 5
    /\ outcomes[5] = "ok"
    /\ ret = Returned([opaque |-> TRUE])
    /\ Len(sleeps) = 4
    /\ sleeps[4] = [lo |-> 8, hi |-> 9]

\* C3: an attempt that fails with a not-found or an invalid-change reason is
\* the last attempt of its execute call, which returns None at once without
\* sleeping for it, however many rate-limited attempts came before.
C3_AbsorbedAtOnce ==
    \A n \in DOMAIN outcomes :
        outcomes[n] \in AbsorbedReasons =>
            /\ n = Len(outcomes)
            /\ pc # "exec"
            /\ ret = ReturnedNone
            /\ Len(sleeps) = n - 1
            /\ \A j \in 1..(n - 1) : outcomes[j] \in RateLimitReasons

C3_Witness ==
    /\ op.name = "execute"
    /\ pc = "done"
    /\ Len(outcomes) = 3
    /\ outcomes[1] \in RateLimitReasons
    /\ outcomes[2] \in RateLimitReasons
    /\ outcomes[3] = "invalid"
    /\ ret = ReturnedNone
    /\ Len(sleeps) = 2

\* C4: an attempt that fails with a reason that is neither a rate limit nor
\* not-found nor invalid-change is the last attempt of its execute call: the
\* error is raised to the caller, nothing is returned and no sleep follows,
\* also after rate-limited attempts.
C4_FatalRaisedAtOnce ==
    \A n \in DOMAIN outcomes :
        outcomes[n] \in FatalReasons =>
            /\ n = Len(outcomes)
            /\ pc # "exec"
            /\ ret = Raised(outcomes[n])
            /\ Len(sleeps) = n - 1
            /\ \A j \in 1..(n - 1) : outcomes[j] \in RateLimitReasons

C4_Witness ==
    /\ op.name = "execute"
    /\ pc = "done"
    /\ Len(outcomes) = 3
    /\ outcomes[1] \in RateLimitReasons
    /\ outcomes[2] \in RateLimitReasons
    /\ outcomes[3] = "backend"
    /\ ret = Raised("backend")
    /\ Len(sleeps) = 2

\* C5: an execute call makes at most 5 transport attempts whatever their
\* outcomes are: it is over once the 5th attempt has been made, and a call
\* whose attempts are all rate-limited ends after exactly 5 of them.
C5_AtMostFiveAttempts ==
    /\ Len(outcomes) <= 5
    /\ Len(outcomes) = 5 => pc # "exec"
    /\ pc = "exec" => ret.k = "pending"
    /\ (ExecuteEnded /\ AllRateLimited) => Len(outcomes) = 5

C5_Witness ==
    /\ op.name = "execute"
    /\ pc = "done"
    /\ Len(outcomes) = 5
    /\ AllRateLimited

----------------------------------------------------------------------------
(* DriveClient.write: what it asks of the remote service *)

ChangingMethods == {"delete", "update", "insert"}

\* The delete, update and insert requests of the call in progress, in order.
Changes == SelectSeq(calls, LAMBDA c : c.req.m \in ChangingMethods)

\* write has found the object it is to write to.
Found == op.name = "write" /\ w.existing # None

\* The representation of the object found agrees with the convert flag.
SameRepresentation ==
    \/ op.convert /\ HasGoogleApps(w.existing.mimeType)
    \/ ~op.convert /\ ~HasGoogleApps(w.existing.mimeType)

\* C6: write with replace=False to a target that resolves to an existing
\* object returns None at once: it issues no delete, update or insert and
\* the remote objects are what they were when it was called.
C6_NoReplaceIsNoOp ==
    (Found /\ ~op.replace) =>
        /\ pc = "done"
        /\ result = ReturnedNone
        /\ Changes = <<>>
        /\ store = store0

C6_Witness ==
    /\ Found
    /\ ~op.replace
    /\ op.id = 0
    /\ w.existing.id \in Ids(store)
    /\ pc = "done"
    /\ result = ReturnedNone

\* C7: write with replace=True to an existing object whose representation
\* agrees with the convert flag issues one update, addressed to the
\* identifier of that object, and no delete or insert; an object it returns
\* has the identifier of the existing object.
C7_UpdateInPlace ==
    (Found /\ op.replace /\ SameRepresentation) =>
        /\ Len(Changes) = 1
        /\ Changes[1].req.m = "update"
        /\ Changes[1].req.id = w.existing.id
        /\ (pc = "done" /\ result.k = "value") =>
                /\ result.v.id = w.existing.id
                /\ result.v.id \in Ids(store)
                /\ Ids(store) = Ids(store0)

C7_Witness ==
    /\ Found
    /\ op.replace
    /\ SameRepresentation
    /\ pc = "done"
    /\ result.k = "value"
    /\ result.v.id = w.existing.id
    /\ result.v.content = op.bytestring
    /\ Lookup(store0, w.existing.id).content # op.bytestring

\* C8: write with replace=True to an existing object whose representation
\* disagrees with the convert flag issues a delete of that object first and
\* an insert only after it, never an update; an object it returns has a new
\* identifier, which is not the one of the existing object.
C8_DeleteThenInsert ==
    (Found /\ op.replace /\ ~SameRepresentation) =>
        /\ Len(Changes) \in {1, 2}
        /\ Changes[1].req.m = "delete"
        /\ Changes[1].req.id = w.existing.id
        /\ Len(Changes) = 2 =>
                /\ Changes[2].req.m = "insert"
                /\ Changes[1].ret.k # "pending"
        /\ (pc = "done" /\ result.k = "value") =>
                /\ Len(Changes) = 2
                /\ result.v.id # w.existing.id
                /\ result.v.id \notin Ids(store0)

C8_Witness ==
    /\ Found
    /\ op.replace
    /\ ~SameRepresentation
    /\ pc = "done"
    /\ result.k = "value"
    /\ Len(Changes) = 2
    /\ w.existing.id \notin Ids(store)
    /\ result.v.id \in Ids(store)

\* The remote service has refused the delete of the call in progress.
DeleteRejected ==
    /\ op.name = "write"
    /\ \E n \in DOMAIN calls :
        calls[n].req.m = "delete" /\ calls[n].ret.k = "raise"

\* C9: when the remote service rejects the delete of a type conversion,
\* write returns None and raises nothing, issues no insert, and the
\* existing object is left as it was.
C9_RejectedDeleteAbsorbed ==
    DeleteRejected =>
        /\ pc \in {"w_delete", "done"}
        /\ \A n \in DOMAIN calls : calls[n].req.m # "insert"
        /\ pc = "done" => result = ReturnedNone
        /\ store = store0
        /\ w.existing \in Range(store)

C9_Witness ==
    /\ DeleteRejected
    /\ pc = "done"
    /\ calls[Len(calls)].ret = Raised("perm")
    /\ result = ReturnedNone
    /\ w.existing \in Range(store)

\* C10: two calls of write in succession with the same arguments leave the
\* remote store, after the second call, holding the objects it held after
\* the first: the same identifiers, titles, parents, representations and
\* contents.
C10_WriteTwice ==
    (pc = "done" /\ first # None) => Range(store) = Range(first.store)

----------------------------------------------------------------------------
(* DriveClient.write: targets that do not resolve, failures, folders *)

\* write is given a name and the name of a folder, and the remote service
\* holds no folder of that name.
FolderAbsent ==
    /\ op.name = "write"
    /\ op.id = 0
    /\ op.fname # ""
    /\ op.folder.kind = "str"
    /\ \A f \in Range(store0) :
        ~(f.title = op.folder.name /\ f.mimeType = folder_type /\ ~f.trashed)

\* C15: write to a named target whose folder is given by name and does not
\* exist issues the lookup of the folder and nothing else: no delete, update
\* or insert, no folder and no file is created, and once the lookup has
\* answered, write returns None.
C15_MissingFolderAbsorbed ==
    FolderAbsent =>
        /\ Len(calls) = 1
        /\ calls[1].req.m = "list"
        /\ Changes = <<>>
        /\ store = store0
        /\ (pc = "done" /\ calls[1].ret.k = "value") => result = ReturnedNone

C15_Witness ==
    /\ FolderAbsent
    /\ pc = "done"
    /\ calls[1].ret = Returned([items |-> <<>>])
    /\ result = ReturnedNone
    /\ store = store0

\* C16: a fatal failure of a remote call that write issues, be it the
\* lookup, the delete, the update or the insert, and a refusal of the delete
\* for want of permission excepted, is raised to the caller of write: write
\* does not return None for it.
C16_FatalFailurePropagates ==
    (op.name = "write" /\ pc = "done") =>
        \A n \in DOMAIN calls :
            (/\ calls[n].ret.k = "raise"
             /\ ~(calls[n].req.m = "delete" /\ calls[n].ret.exc = "perm"))
                => result.k = "raise"

\* C18: when the type conversion of write issues its insert, the old object
\* is no longer held by the remote service: the delete has removed it or has
\* found it absent, also when the delete ran out of rate-limited attempts.
C18_InsertAfterObjectGone ==
    (Found /\ Len(Changes) = 2 /\ Changes[1].req.m = "delete"
        /\ Changes[2].req.m = "insert")
        => w.existing.id \notin Ids(store)

\* write is addressed by an identifier that the remote service does not hold.
ByAbsentId == op.name = "write" /\ op.id # 0 /\ op.id \notin Ids(store0)

\* write is given neither an identifier nor a name.
NoTarget == op.name = "write" /\ op.id = 0 /\ op.fname = ""

\* C19: write addressed by an identifier that does not resolve issues the
\* get of that identifier and nothing else, returns None once the get is
\* answered with not-found, and leaves the remote objects as they were;
\* write given neither identifier nor name returns None without any request.
C19_UnresolvedIdCreatesNothing ==
    /\ ByAbsentId =>
        /\ Len(calls) = 1
        /\ calls[1].req.m = "get"
        /\ Changes = <<>>
        /\ store = store0
        /\ pc = "done" => result.k \in {"None", "raise"}
        /\ (pc = "done" /\ outcomes[Len(outcomes)] = "notfound")
                => result = ReturnedNone
    /\ NoTarget =>
        /\ pc = "done"
        /\ calls = <<>>
        /\ result = ReturnedNone
        /\ store = store0

C19_Witness ==
    /\ ByAbsentId
    /\ pc = "done"
    /\ outcomes = <<"rate", "notfound">>
    /\ result = ReturnedNone
    /\ Len(store) = Len(store0)

\* C20: write deletes and updates files only: no delete and no update
\* request of write is addressed to the identifier of a folder, whatever
\* the target and the replace and convert flags are.
C20_FoldersUntouched ==
    op.name = "write" =>
        \A n \in DOMAIN Changes :
            (Changes[n].req.m \in {"delete", "update"}
                /\ Changes[n].req.id \in Ids(store0))
                => Kind(Lookup(store0, Changes[n].req.id)) = "DriveFile"

----------------------------------------------------------------------------
(* DriveClient.query and DriveFolder.files_of_type: what they return *)

Querying == op.name \in {"query", "files_of_type"}

\* The objects of the store that the request of the call asks for, most
\* recently modified first.
Asked == SelectSeq(store0, LAMBDA f : Matches(f, calls[1].req.q))

\* C11: the bound alone fixes the shape of what query returns: with
\* maxResults = 1 the first match, or None when nothing matches, and never
\* a list; with maxResults > 1 a list, empty when nothing matches.
C11_ResultShape ==
    (Querying /\ pc = "done" /\ result.k # "raise") =>
        /\ op.maxResults = 1 =>
            /\ result.k \in {"value", "None"}
            /\ result.k = "None" <=> Asked = <<>>
            /\ result.k = "value" => result.v = Head(Asked)
        /\ op.maxResults > 1 =>
            /\ result.k = "list"
            /\ result.v = Take(Asked, op.maxResults)

C11_Witness ==
    /\ op.name = "query"
    /\ pc = "done"
    /\ op.maxResults = 1
    /\ Len(Asked) = 2
    /\ result = Returned(Asked[1])

\* The mime-types that the argument of files_of_type supplies.
Supplied ==
    IF op.mime_types.kind = "str"
    THEN (IF op.mime_types.str = "" THEN {} ELSE {op.mime_types.str})
    ELSE Range(op.mime_types.list)

\* C14: files_of_type without mime-types (None or empty) returns the
\* non-trashed direct children of the folder that are not folders, each
\* once; with mime-types it returns the non-trashed direct children whose
\* mime-type is one of them.
C14_ChildrenOfTypes ==
    (op.name = "files_of_type" /\ pc = "done" /\ result.k # "raise") =>
        /\ result.k = "list"
        /\ \A m, n \in DOMAIN result.v : result.v[m] = result.v[n] => m = n
        /\ Range(result.v) =
            {f \in Range(store0) :
                /\ op.parent \in f.parents
                /\ ~f.trashed
                /\ IF Supplied = {} THEN f.mimeType # folder_type
                   ELSE f.mimeType \in Supplied}

C14_Witness ==
    /\ op.name = "files_of_type"
    /\ pc = "done"
    /\ op.parent = RootId
    /\ op.mime_types = TypeList(<<>>)
    /\ result.k = "list"
    /\ Len(result.v) = 2
    /\ NamedFolder \in Range(store0)

\* C17: when the list request of query ends absorbed, execute returning
\* None, query hands None or an empty list to its caller and raises nothing.
C17_AbsorbedListIsEmpty ==
    (Querying /\ pc = "done" /\ calls[1].ret = ReturnedNone) =>
        result \in {ReturnedNone, ReturnedList(<<>>)}

----------------------------------------------------------------------------
(* DriveFile.save_as: the writes to the local file *)

Saving == op.name = "save_as"

\* A file is under the path, and replace is False or the checksum of the
\* remote file is present and is the md5 of the bytes under the path.
NothingToSave ==
    /\ op.before.exists
    /\ \/ ~op.replace
       \/ ~HasGoogleApps(op.file.mimeType)
            /\ op.file.content = op.before.bytes

\* C12: save_as writes nothing to the local file when one exists at the
\* path and replace is False or the remote md5 checksum is present and
\* equals the md5 of the local bytes; in every other case a save_as that
\* returns has made exactly one write, of all the downloaded bytes.
C12_ZeroOrOneWrite ==
    Saving =>
        IF NothingToSave THEN pc = "done" /\ disk = op.before
        ELSE (pc = "done" /\ result.k # "raise") =>
                /\ disk.writes = <<Data(op.file)>>
                /\ disk.exists
                /\ disk.bytes = Data(op.file)

C12_Witness ==
    /\ Saving
    /\ pc = "done"
    /\ op.replace
    /\ op.before.exists
    /\ Md5Checksum(op.file) = Md5(op.before.bytes)
    /\ disk.writes = <<>>

\* C13: at every step of save_as, a failed download included, the path
\* holds all of what it held before or all of the new content, and never
\* an empty or a partial file.
C13_AtomicOverwrite ==
    Saving =>
        \/ disk.exists = op.before.exists /\ disk.bytes = op.before.bytes
        \/ disk.exists /\ disk.bytes = Data(op.file)

====
